---- MODULE Spec2Model ----
(***************************************************************************)
(* Model of the JupyterHub spawn / session engine of                       *)
(* jupyterhub/handlers/base.py: BaseHandler (session resolution, login     *)
(* cookies, spawn_single_user, stop_single_user, notify_proxy) and         *)
(* UserSpawnHandler.get.                                                   *)
(*                                                                         *)
(* The Hub runs on one tornado event loop: a coroutine runs without        *)
(* interruption from one `yield` to the next, so every action below is the *)
(* code between two suspension points of one handler.  Inside an action    *)
(* the statements are applied in source order to a record `w` that holds   *)
(* the whole Hub state (see World), so that the order of a commit and an   *)
(* external call inside one action is part of the model.                   *)
(***************************************************************************)
EXTENDS Integers, Sequences, FiniteSets, TLC

Users    == {"alice", "bob"}     \* rows of the users table
Browsers == {"b1"}               \* clients, each with its own cookie jar
Handlers == {1, 2}               \* request handlers that may be in flight at once
MaxRequests == 4                 \* bound on the number of requests served

None      == 0                   \* Python None for ids and token values
Anonymous == "anonymous"         \* get_current_user() returning None

VARIABLES
    user_server,    \* User.server: id of the user's Server row, or None
    user_state,     \* User.state: spawner.get_state() snapshot (pid), None for {}
    user_spawner,   \* User.spawner: transient reference to a live Spawner, or None
    servers,        \* rows of the servers table created by spawns; id = index
    api_tokens,     \* rows of the api_tokens table: [token, user]
    cookie_tokens,  \* rows of the cookie_tokens table: [token, user]
    committed,      \* what the last db.commit() made durable
    spawners,       \* Spawner objects ever constructed; id = index
    routes,         \* the Proxy's routing table: base_url of a user -> target
    proxy_log,      \* requests issued to the Proxy's api_server, in order
    ready,          \* targets whose wait_for_server probe has succeeded
    jar,            \* cookies held by each browser
    handlers,       \* per handler: position and local variables
    nreq            \* number of requests served so far

vars == <<user_server, user_state, user_spawner, servers, api_tokens,
          cookie_tokens, committed, spawners, routes, proxy_log, ready,
          jar, handlers, nreq>>

(***************************************************************************)
(* The Hub state as one record, threaded through the statements of an       *)
(* action.                                                                  *)
(***************************************************************************)
World ==
    [user_server |-> user_server, user_state |-> user_state,
     user_spawner |-> user_spawner, servers |-> servers,
     api_tokens |-> api_tokens, cookie_tokens |-> cookie_tokens,
     committed |-> committed, spawners |-> spawners, routes |-> routes,
     proxy_log |-> proxy_log, ready |-> ready, jar |-> jar]

Becomes(w) ==
    /\ user_server' = w.user_server
    /\ user_state' = w.user_state
    /\ user_spawner' = w.user_spawner
    /\ servers' = w.servers
    /\ api_tokens' = w.api_tokens
    /\ cookie_tokens' = w.cookie_tokens
    /\ committed' = w.committed
    /\ spawners' = w.spawners
    /\ routes' = w.routes
    /\ proxy_log' = w.proxy_log
    /\ ready' = w.ready
    /\ jar' = w.jar

\* self.db.commit(): everything pending in the session becomes durable.
db_commit(w) ==
    [w EXCEPT !.committed =
        [user_server |-> w.user_server, user_state |-> w.user_state,
         servers |-> w.servers, api_tokens |-> w.api_tokens,
         cookie_tokens |-> w.cookie_tokens]]

\* orm.new_token(): a value no stored token has (tokens are never deleted).
new_token(w) == Cardinality(w.api_tokens) + Cardinality(w.cookie_tokens) + 1

\* new_api_token that hands out again the APIToken the user already has.
new_api_token_reused(w, user) ==
    IF \E t \in w.api_tokens : t.user = user THEN w
    ELSE [w EXCEPT
            !.api_tokens = @ \cup {[token |-> new_token(w), user |-> user]}]

\* user.new_api_token(); self.db.add(api_token)
new_api_token(w, user) ==
    [w EXCEPT !.api_tokens = @ \cup {[token |-> new_token(w), user |-> user]}]

\* user.new_cookie_token(); self.db.add(cookie_token)
new_cookie_token(w, user) ==
    [w EXCEPT !.cookie_tokens = @ \cup {[token |-> new_token(w), user |-> user]}]

(***************************************************************************)
(* Login and cookie-related                                                *)
(***************************************************************************)

\* get_current_user_token: the owner of the APIToken the header names.
get_current_user_token(w, hdr) ==
    IF hdr = None THEN Anonymous
    ELSE IF \E t \in w.api_tokens : t.token = hdr
         THEN (CHOOSE t \in w.api_tokens : t.token = hdr).user
         ELSE Anonymous

\* get_current_user_cookie, the value it returns.
get_current_user_cookie(w, cookie) ==
    IF cookie = None THEN Anonymous
    ELSE IF \E t \in w.cookie_tokens : t.token = cookie
         THEN (CHOOSE t \in w.cookie_tokens : t.token = cookie).user
         ELSE Anonymous

\* get_current_user_cookie, its effect: a cookie that matches no CookieToken
\* is cleared in the browser `b` that sent it.
clear_invalid_cookie(w, b, cookie) ==
    IF cookie # None /\ get_current_user_cookie(w, cookie) = Anonymous
    THEN [w EXCEPT !.jar[b].hub = None]
    ELSE w

\* get_current_user that looks at the cookie before the header.
get_current_user_cookie_first(w, hdr, cookie) ==
    IF get_current_user_cookie(w, cookie) # Anonymous
    THEN get_current_user_cookie(w, cookie)
    ELSE get_current_user_token(w, hdr)

\* get_current_user, the value it returns.
get_current_user(w, hdr, cookie) ==
    IF get_current_user_token(w, hdr) # Anonymous
    THEN get_current_user_token(w, hdr)
    ELSE get_current_user_cookie(w, cookie)

\* get_current_user, its effect (the cookie is only looked at when the
\* header resolves to no user).
get_current_user_effect(w, b, hdr, cookie) ==
    IF get_current_user_token(w, hdr) # Anonymous
    THEN w
    ELSE clear_invalid_cookie(w, b, cookie)

\* @token_authenticated: the request carries `Authorization: token <t>` and
\* t is a stored APIToken; otherwise the handler is not entered.
token_authenticated(w, hdr) == get_current_user_token(w, hdr) # Anonymous

\* AuthorizationsAPIHandler.get that looks the value up among all tokens.
authorizations_get_any_token(w, hdr, token) ==
    IF ~token_authenticated(w, hdr)
    THEN [status |-> "forbidden", user |-> Anonymous]
    ELSE IF \E t \in w.cookie_tokens \cup w.api_tokens : t.token = token
         THEN [status |-> "authorized",
               user |-> (CHOOSE t \in w.cookie_tokens \cup w.api_tokens :
                            t.token = token).user]
         ELSE [status |-> "not_found", user |-> Anonymous]

\* AuthorizationsAPIHandler.get(token), its answer: 403 without a bearer API
\* token, 404 when no CookieToken has the value, else {'user': name}.
authorizations_get(w, hdr, token) ==
    IF ~token_authenticated(w, hdr)
    THEN [status |-> "forbidden", user |-> Anonymous]
    ELSE IF \E t \in w.cookie_tokens : t.token = token
         THEN [status |-> "authorized",
               user |-> (CHOOSE t \in w.cookie_tokens : t.token = token).user]
         ELSE [status |-> "not_found", user |-> Anonymous]

\* clear_login_cookie that also deletes the CookieToken row of the cookie.
clear_login_cookie_drops_token(w, b, hdr, cookie) ==
    LET w1 == get_current_user_effect(w, b, hdr, cookie)
    IN [w1 EXCEPT !.jar[b].hub = None,
                  !.cookie_tokens = {t \in @ : t.token # cookie}]

\* clear_login_cookie
clear_login_cookie(w, b, hdr, cookie) ==
    LET user == get_current_user(w, hdr, cookie)
        w1 == get_current_user_effect(w, b, hdr, cookie)
        w2 == IF user # Anonymous /\ w1.user_server[user] # None
              THEN [w1 EXCEPT !.jar[b].user[user] = None]
              ELSE w1
    IN [w2 EXCEPT !.jar[b].hub = None]

\* set_login_cookie(user) on a request of browser b that sent `cookie`
set_login_cookie(w, b, cookie, user) ==
    LET w1 == IF w.user_server[user] # None
              THEN LET m == db_commit(new_cookie_token(w, user))
                   IN [m EXCEPT !.jar[b].user[user] = new_token(w)]
              ELSE w
        w2 == clear_invalid_cookie(w1, b, cookie)
    IN IF get_current_user_cookie(w1, cookie) = Anonymous
       THEN LET m == db_commit(new_cookie_token(w2, user))
            IN [m EXCEPT !.jar[b].hub = new_token(w2)]
       ELSE w2

(***************************************************************************)
(* The Proxy's control plane.  requests.post / requests.delete block the   *)
(* event loop, so the request has been answered when the call returns; ok  *)
(* is whether the answer was 2xx.  notify_proxy and notify_proxy_delete    *)
(* are coroutines their callers do not yield: an exception raised inside   *)
(* them stays in a Future nobody reads.                                    *)
(***************************************************************************)
LogEntry(w, op, user, ok) ==
    [op |-> op, user |-> user, target |-> w.user_server[user], ok |-> ok,
     row |-> w.committed.user_server[user],
     state |-> w.user_state[user],
     cstate |-> w.committed.user_state[user],
     ready |-> w.user_server[user] \in w.ready]

\* url_path_join(proxy.api_server.url, user.server.base_url): the route's key
base_url(w, user) == w.servers[w.user_server[user]].name

\* notify_proxy(user): POST the route, then start the readiness probe of
\* user.server.ip:port.  user.server is None -> AttributeError, no request.
notify_proxy(w, user, ok) ==
    IF w.user_server[user] = None THEN w
    ELSE [w EXCEPT
            !.proxy_log = Append(@, LogEntry(w, "POST", user, ok)),
            !.routes[base_url(w, user)] = IF ok THEN w.user_server[user] ELSE @]

\* notify_proxy_delete(user): DELETE the route.
notify_proxy_delete(w, user, ok) ==
    IF w.user_server[user] = None THEN w
    ELSE [w EXCEPT
            !.proxy_log = Append(@, LogEntry(w, "DELETE", user, ok)),
            !.routes[base_url(w, user)] = IF ok THEN None ELSE @]

(***************************************************************************)
(* spawning-related                                                        *)
(***************************************************************************)

\* spawn_begin that keeps the Server row the user already has.
spawn_begin_reuses_server(w, user) ==
    LET w1 == IF w.user_server[user] # None THEN w
              ELSE db_commit([w EXCEPT
                      !.servers = Append(@, [name |-> user]),
                      !.user_server[user] = Len(w.servers) + 1])
        w2 == db_commit(new_api_token(w1, user))
    IN [w2 EXCEPT
          !.spawners = Append(@, [user |-> user, api_token |-> new_token(w1),
                                  up |-> TRUE, stop_called |-> FALSE]),
          !.user_spawner[user] = Len(w.spawners) + 1]

\* spawn_single_user up to `yield spawner.start()`: Server row, APIToken,
\* Spawner; start() has been called when the coroutine suspends.
spawn_begin(w, user) ==
    LET w1 == db_commit([w EXCEPT
                  !.servers = Append(@, [name |-> user]),
                  !.user_server[user] = Len(w.servers) + 1])
        w2 == db_commit(new_api_token(w1, user))
    IN [w2 EXCEPT
          !.spawners = Append(@, [user |-> user, api_token |-> new_token(w1),
                                  up |-> TRUE, stop_called |-> FALSE]),
          !.user_spawner[user] = Len(w.spawners) + 1]

\* spawn_finish with notify_proxy moved before the commit of user.state.
spawn_finish_notify_first(w, user, sp, ok) ==
    db_commit(notify_proxy([w EXCEPT !.user_state[user] = sp], user, ok))

\* spawn_single_user after start() has returned: store state, notify proxy.
\* sp is the local variable `spawner`; get_state() is the pid of its process.
spawn_finish(w, user, sp, ok) ==
    notify_proxy(db_commit([w EXCEPT !.user_state[user] = sp]), user, ok)

\* stop_finish without `user.server = None`.
stop_finish_keeps_server(w, user, ok) ==
    LET w1 == notify_proxy_delete(w, user, ok)
    IN db_commit([w1 EXCEPT !.user_state[user] = None,
                            !.user_spawner[user] = None])

\* stop_finish without the call of notify_proxy_delete.
stop_finish_no_unregister(w, user, ok) ==
    db_commit([w EXCEPT !.user_state[user] = None,
                        !.user_spawner[user] = None,
                        !.user_server[user] = None])

\* stop_finish with notify_proxy_delete moved after the clear and commit.
stop_finish_clear_first(w, user, ok) ==
    notify_proxy_delete(
        db_commit([w EXCEPT !.user_state[user] = None,
                            !.user_spawner[user] = None,
                            !.user_server[user] = None]), user, ok)

\* stop_finish with notify_proxy_delete yielded: a non-2xx answer raises
\* out of stop_single_user before anything is cleared.
stop_finish_raises(w, user, ok) ==
    LET w1 == notify_proxy_delete(w, user, ok)
    IN IF ok THEN db_commit([w1 EXCEPT !.user_state[user] = None,
                                       !.user_spawner[user] = None,
                                       !.user_server[user] = None])
       ELSE w1

\* stop_finish that also deletes the APITokens of the stopped user.
stop_finish_revokes_token(w, user, ok) ==
    LET w1 == notify_proxy_delete(w, user, ok)
    IN db_commit([w1 EXCEPT !.user_state[user] = None,
                            !.user_spawner[user] = None,
                            !.user_server[user] = None,
                            !.api_tokens = {t \in @ : t.user # user}])

\* stop_single_user after poll()/stop(): unregister, clear, commit.
stop_finish(w, user, ok) ==
    LET w1 == notify_proxy_delete(w, user, ok)
    IN db_commit([w1 EXCEPT !.user_state[user] = None,
                            !.user_spawner[user] = None,
                            !.user_server[user] = None])

(***************************************************************************)
(* Handlers.  pc is the suspension point a handler waits at:                *)
(*   idle        no request in flight                                       *)
(*   get_poll    UserSpawnHandler.get at `yield current_user.spawner.poll()`*)
(*   spawn_start spawn_single_user at `yield spawner.start()`               *)
(*   stop_poll   stop_single_user at `yield user.spawner.poll()`            *)
(*   stop_stop   stop_single_user at `yield user.spawner.stop()`            *)
(* user, browser, cookie, sp, up0 are the locals the handler resumes with:  *)
(* the resolved user, the client and the Hub cookie it sent, the Spawner    *)
(* whose call is awaited, and whether its process ran when poll() was       *)
(* called.  result is how the handler's last request ended.                 *)
(***************************************************************************)
IdleHandler(result) ==
    [pc |-> "idle", user |-> Anonymous, browser |-> "none", cookie |-> None,
     sp |-> None, up0 |-> FALSE, result |-> result]

Suspend(h, pc, user, b, cookie, sp, up0) ==
    handlers' = [handlers EXCEPT ![h] =
        [pc |-> pc, user |-> user, browser |-> b, cookie |-> cookie,
         sp |-> sp, up0 |-> up0, result |-> "pending"]]

Finish(h, result) ==
    handlers' = [handlers EXCEPT ![h] = IdleHandler(result)]

\* A request is taken by the first handler that is free.
Free(h) ==
    /\ handlers[h].pc = "idle"
    /\ \A g \in Handlers : g < h => handlers[g].pc # "idle"

\* A request is served.
Accept(h) ==
    /\ Free(h)
    /\ nreq < MaxRequests
    /\ nreq' = nreq + 1

\* Every value a client can put in the Authorization header: no header, or
\* any token string minted so far.
Headers == 0 .. (Cardinality(api_tokens) + Cardinality(cookie_tokens))

\* spawner.poll() awaited by h: the process is sampled between the call and
\* the resumption, and a process that has exited stays exited.
PollSaysRunning(h) == {handlers[h].up0, spawners[handlers[h].sp].up}

Init ==
    /\ user_server = [u \in Users |-> None]
    /\ user_state = [u \in Users |-> None]
    /\ user_spawner = [u \in Users |-> None]
    /\ servers = <<>>
    /\ api_tokens = {}
    /\ cookie_tokens = {}
    /\ committed = [user_server |-> [u \in Users |-> None],
                    user_state |-> [u \in Users |-> None],
                    servers |-> <<>>, api_tokens |-> {}, cookie_tokens |-> {}]
    /\ spawners = <<>>
    /\ routes = [u \in Users |-> None]
    /\ proxy_log = <<>>
    /\ ready = {}
    /\ jar = [b \in Browsers |-> [hub |-> None, user |-> [u \in Users |-> None]]]
    /\ handlers = [h \in Handlers |-> IdleHandler("none")]
    /\ nreq = 0

\* A successful login: the Authenticator accepted the credentials of `user`
\* and the login handler calls set_login_cookie(user).
Login(h, b, user) ==
    /\ Accept(h)
    /\ Becomes(set_login_cookie(World, b, jar[b].hub, user))
    /\ Finish(h, "logged_in")

\* Every value a client can put in the URL of /api/authorizations/{token}:
\* any token string minted so far, or one never minted.
Tokens == 1 .. (Cardinality(api_tokens) + Cardinality(cookie_tokens) + 1)

\* AuthorizationsAPIHandler.get: the answer is written at once, nothing is
\* stored.
GetAuthorization(h, hdr, token) ==
    /\ Accept(h)
    /\ handlers' = [handlers EXCEPT ![h] =
           [IdleHandler(authorizations_get(World, hdr, token).status)
               EXCEPT !.user = authorizations_get(World, hdr, token).user]]
    /\ UNCHANGED <<user_server, user_state, user_spawner, servers, api_tokens,
                   cookie_tokens, committed, spawners, routes, proxy_log,
                   ready, jar>>

\* UserSpawnHandler.get, else branch: not logged in as `name`.
GetLogin(h, b, hdr, name) ==
    /\ Accept(h)
    /\ get_current_user(World, hdr, jar[b].hub) # name
    /\ Becomes(clear_login_cookie(World, b, hdr, jar[b].hub))
    /\ Finish(h, "to_login")

\* UserSpawnHandler.get, logged in, no spawner: spawn_single_user is entered
\* and runs up to `yield spawner.start()`.
GetSpawn(h, b, hdr, name) ==
    /\ Accept(h)
    /\ get_current_user(World, hdr, jar[b].hub) = name
    /\ user_spawner[name] = None
    /\ Becomes(spawn_begin(
           get_current_user_effect(World, b, hdr, jar[b].hub), name))
    /\ Suspend(h, "spawn_start", name, b, jar[b].hub, Len(spawners) + 1, TRUE)

\* UserSpawnHandler.get, logged in, spawner present: poll it.
GetPoll(h, b, hdr, name) ==
    /\ Accept(h)
    /\ get_current_user(World, hdr, jar[b].hub) = name
    /\ user_spawner[name] # None
    /\ Becomes(get_current_user_effect(World, b, hdr, jar[b].hub))
    /\ Suspend(h, "get_poll", name, b, jar[b].hub, user_spawner[name],
               spawners[user_spawner[name]].up)

\* GetPolledRunning that registers the route again before the cookies.
GetPolledRunning_registers(h) ==
    /\ handlers[h].pc = "get_poll"
    /\ TRUE \in PollSaysRunning(h)
    /\ Becomes(set_login_cookie(notify_proxy(World, handlers[h].user, TRUE),
                                handlers[h].browser, handlers[h].cookie,
                                handlers[h].user))
    /\ Finish(h, "redirect")
    /\ UNCHANGED nreq

\* get resumes from poll(), status is None: no spawn; cookies, redirect.
GetPolledRunning(h) ==
    /\ handlers[h].pc = "get_poll"
    /\ TRUE \in PollSaysRunning(h)
    /\ Becomes(set_login_cookie(World, handlers[h].browser,
                                handlers[h].cookie, handlers[h].user))
    /\ Finish(h, "redirect")
    /\ UNCHANGED nreq

\* get resumes from poll() with an exit status: spawn again.
GetPolledExited(h) ==
    /\ handlers[h].pc = "get_poll"
    /\ FALSE \in PollSaysRunning(h)
    /\ Becomes(spawn_begin(World, handlers[h].user))
    /\ Suspend(h, "spawn_start", handlers[h].user, handlers[h].browser,
               handlers[h].cookie, Len(spawners) + 1, TRUE)
    /\ UNCHANGED nreq

\* spawner.start() returned: the rest of spawn_single_user, then the rest of
\* get (set_login_cookie, redirect).  ok: the Proxy answered the POST 2xx.
SpawnStarted(h, ok) ==
    /\ handlers[h].pc = "spawn_start"
    /\ Becomes(set_login_cookie(
           spawn_finish(World, handlers[h].user, handlers[h].sp, ok),
           handlers[h].browser, handlers[h].cookie, handlers[h].user))
    /\ Finish(h, "redirect")
    /\ UNCHANGED nreq

\* spawner.start() raised: the exception leaves spawn_single_user and get.
SpawnFailed(h) ==
    /\ handlers[h].pc = "spawn_start"
    /\ Finish(h, "spawn_error")
    /\ UNCHANGED <<user_server, user_state, user_spawner, servers, api_tokens,
                   cookie_tokens, committed, spawners, routes, proxy_log,
                   ready, jar, nreq>>

\* StopNoop with the unregister issued before user.spawner is looked at.
StopNoop_unregisters(h, user) ==
    /\ Accept(h)
    /\ user_spawner[user] = None
    /\ Finish(h, "stop_noop")
    /\ proxy_log' = Append(proxy_log, LogEntry(World, "DELETE", user, TRUE))
    /\ UNCHANGED <<user_server, user_state, user_spawner, servers, api_tokens,
                   cookie_tokens, committed, spawners, routes, ready, jar>>

\* stop_single_user(user), user.spawner is None: return.
StopNoop(h, user) ==
    /\ Accept(h)
    /\ user_spawner[user] = None
    /\ Finish(h, "stop_noop")
    /\ UNCHANGED <<user_server, user_state, user_spawner, servers, api_tokens,
                   cookie_tokens, committed, spawners, routes, proxy_log,
                   ready, jar>>

\* stop_single_user(user) up to `yield user.spawner.poll()`.
StopPoll(h, user) ==
    /\ Accept(h)
    /\ user_spawner[user] # None
    /\ Suspend(h, "stop_poll", user, "none", None, user_spawner[user],
               spawners[user_spawner[user]].up)
    /\ UNCHANGED <<user_server, user_state, user_spawner, servers, api_tokens,
                   cookie_tokens, committed, spawners, routes, proxy_log,
                   ready, jar>>

\* stop resumes from poll(), status is None: `user.spawner.stop()` is called
\* on whatever user.spawner is now.
StopPolledRunning(h) ==
    /\ handlers[h].pc = "stop_poll"
    /\ TRUE \in PollSaysRunning(h)
    /\ user_spawner[handlers[h].user] # None
    /\ spawners' = [spawners EXCEPT
                       ![user_spawner[handlers[h].user]].stop_called = TRUE]
    /\ handlers' = [handlers EXCEPT ![h].pc = "stop_stop",
                       ![h].sp = user_spawner[handlers[h].user]]
    /\ UNCHANGED <<user_server, user_state, user_spawner, servers, api_tokens,
                   cookie_tokens, committed, routes, proxy_log, ready,
                   jar, nreq>>

\* ... and user.spawner is None by now: None.stop() raises AttributeError.
StopPolledNoSpawner(h) ==
    /\ handlers[h].pc = "stop_poll"
    /\ TRUE \in PollSaysRunning(h)
    /\ user_spawner[handlers[h].user] = None
    /\ Finish(h, "stop_error")
    /\ UNCHANGED <<user_server, user_state, user_spawner, servers, api_tokens,
                   cookie_tokens, committed, spawners, routes, proxy_log,
                   ready, jar, nreq>>

\* stop resumes from poll() with an exit status: stop() is skipped.
\* ok: the Proxy answered the DELETE 2xx.
StopPolledExited(h, ok) ==
    /\ handlers[h].pc = "stop_poll"
    /\ FALSE \in PollSaysRunning(h)
    /\ Becomes(stop_finish(World, handlers[h].user, ok))
    /\ Finish(h, "stopped")
    /\ UNCHANGED nreq

\* spawner.stop() returned: the process has exited.
StopStopped(h, ok) ==
    /\ handlers[h].pc = "stop_stop"
    /\ Becomes(stop_finish(
           [World EXCEPT !.spawners[handlers[h].sp].up = FALSE],
           handlers[h].user, ok))
    /\ Finish(h, "stopped")
    /\ UNCHANGED nreq

\* The single-user process of Spawner k exits on its own.
ProcessDies(k) ==
    /\ spawners[k].up
    /\ spawners' = [spawners EXCEPT ![k].up = FALSE]
    /\ UNCHANGED <<user_server, user_state, user_spawner, servers, api_tokens,
                   cookie_tokens, committed, routes, proxy_log, ready,
                   jar, handlers, nreq>>

\* wait_for_server(ip, port) inside a notify_proxy coroutine, started after
\* its POST, connects to target s (only a running process accepts).  A probe
\* that times out changes nothing; r.raise_for_status() follows either way
\* and nobody reads its outcome.
Probing(s) == \E i \in 1 .. Len(proxy_log) :
                 proxy_log[i].op = "POST" /\ proxy_log[i].target = s

ProbeConnects(s) ==
    /\ Probing(s)
    /\ s \notin ready
    /\ spawners[s].up
    /\ ready' = ready \cup {s}
    /\ UNCHANGED <<user_server, user_state, user_spawner, servers, api_tokens,
                   cookie_tokens, committed, spawners, routes, proxy_log, jar,
                   handlers, nreq>>

Next ==
    \/ \E h \in Handlers, b \in Browsers, u \in Users : Login(h, b, u)
    \/ \E h \in Handlers, b \in Browsers, hdr \in Headers, n \in Users :
          GetLogin(h, b, hdr, n)
    \/ \E h \in Handlers, b \in Browsers, hdr \in Headers, n \in Users :
          GetSpawn(h, b, hdr, n)
    \/ \E h \in Handlers, b \in Browsers, hdr \in Headers, n \in Users :
          GetPoll(h, b, hdr, n)
    \/ \E h \in Handlers : GetPolledRunning(h)
    \/ \E h \in Handlers : GetPolledExited(h)
    \/ \E h \in Handlers, ok \in BOOLEAN : SpawnStarted(h, ok)
    \/ \E h \in Handlers : SpawnFailed(h)
    \/ \E h \in Handlers, u \in Users : StopNoop(h, u)
    \/ \E h \in Handlers, u \in Users : StopPoll(h, u)
    \/ \E h \in Handlers : StopPolledRunning(h)
    \/ \E h \in Handlers : StopPolledNoSpawner(h)
    \/ \E h \in Handlers, ok \in BOOLEAN : StopPolledExited(h, ok)
    \/ \E h \in Handlers, ok \in BOOLEAN : StopStopped(h, ok)
    \/ \E k \in 1 .. Len(spawners) : ProcessDies(k)
    \/ \E s \in 1 .. Len(servers) : ProbeConnects(s)

Spec == Init /\ [][Next]_vars

\* The IOLoop resumes a suspended handler once the call it awaits is over:
\* poll(), start() and stop() each complete or raise.
Resume(h) ==
    \/ GetPolledRunning(h)
    \/ GetPolledExited(h)
    \/ \E ok \in BOOLEAN : SpawnStarted(h, ok)
    \/ SpawnFailed(h)
    \/ StopPolledRunning(h)
    \/ StopPolledNoSpawner(h)
    \/ \E ok \in BOOLEAN : StopPolledExited(h, ok)
    \/ \E ok \in BOOLEAN : StopStopped(h, ok)

FairSpec == Spec /\ \A h \in Handlers : WF_vars(Resume(h))

\* The session side of the Hub alone: logins, GET /user/name requests with
\* the spawns they start, and the token lookups of the REST API, with no stop
\* request, no process exiting on its own and no probe of the Proxy.
SessionNext ==
    \/ \E h \in Handlers, b \in Browsers, u \in Users : Login(h, b, u)
    \/ \E h \in Handlers, b \in Browsers, hdr \in Headers, n \in Users :
          GetLogin(h, b, hdr, n)
    \/ \E h \in Handlers, b \in Browsers, hdr \in Headers, n \in Users :
          GetSpawn(h, b, hdr, n)
    \/ \E h \in Handlers, b \in Browsers, hdr \in Headers, n \in Users :
          GetPoll(h, b, hdr, n)
    \/ \E h \in Handlers : GetPolledRunning(h)
    \/ \E h \in Handlers, ok \in BOOLEAN : SpawnStarted(h, ok)
    \/ \E h \in Handlers, hdr \in Headers, t \in Tokens :
          GetAuthorization(h, hdr, t)

SessionSpec == Init /\ [][SessionNext]_vars

(***************************************************************************)
(* Properties                                                               *)
(***************************************************************************)
Posts   == {i \in 1 .. Len(proxy_log) : proxy_log[i].op = "POST"}
Deletes == {i \in 1 .. Len(proxy_log) : proxy_log[i].op = "DELETE"}

\* The step issues exactly one request to the Proxy: `op` for `user`.
Issues(op, user) ==
    /\ Len(proxy_log') = Len(proxy_log) + 1
    /\ proxy_log'[Len(proxy_log')].op = op
    /\ proxy_log'[Len(proxy_log')].user = user

InStart(h, u) == handlers[h].pc = "spawn_start" /\ handlers[h].user = u

\* C1: concurrent spawn(U) produce one Server row, one APIToken and one
\* Spawner.start call: all handlers that are suspended in spawner.start for
\* the same user await the start of the same Spawner.
C1_ConcurrentSpawnsShareOne ==
    \A u \in Users : \A h1, h2 \in Handlers :
        InStart(h1, u) /\ InStart(h2, u) => handlers[h1].sp = handlers[h2].sp

\* C2: at most one spawn or stop is in flight per user; in particular a
\* stop(U) that returns clears only the server whose spawner it polled or
\* stopped, never the server of a spawn that began while it was suspended.
C2_StopSparesNewerSpawn ==
    [][\A h \in Handlers :
          (/\ handlers[h].pc \in {"stop_poll", "stop_stop"}
           /\ handlers'[h].result = "stopped"
           /\ user_server[handlers[h].user] # None)
          => user_server[handlers[h].user] = handlers[h].sp]_vars

\* C3: in every state, for every user, user.server is set exactly when
\* user.spawner is set.
C3_ServerIffSpawner ==
    \A u \in Users : (user_server[u] # None) <=> (user_spawner[u] # None)

\* C3 witness: a user is running a second server after a stop (spawn, stop,
\* re-spawn).
C3_Witness ==
    \E u \in Users :
        /\ user_server[u] # None /\ user_spawner[u] # None
        /\ Len(servers) >= 2
        /\ \E i \in Deletes : proxy_log[i].user = u

NoFailedUnregister == \A i \in Deletes : proxy_log[i].ok

C5_FailedSpawnRollsBack ==
    [][\A h \in Handlers :
          (handlers[h].pc = "spawn_start" /\ handlers'[h].result = "spawn_error")
          => /\ user_server'[handlers[h].user] = None
             /\ user_spawner'[handlers[h].user] = None
             /\ spawners'[handlers[h].sp].stop_called
             /\ \A t \in api_tokens' :
                   t.token # spawners[handlers[h].sp].api_token]_vars

\* C6: spawn returns the user (the client is redirected) only if the
\* register request was answered 2xx and the readiness probe of its target
\* has succeeded.
C6_ReturnsOnlyIfRegistered ==
    [][\A h \in Handlers :
          (handlers[h].pc = "spawn_start" /\ handlers'[h].result = "redirect")
          => /\ Issues("POST", handlers[h].user)
             /\ proxy_log'[Len(proxy_log')].ok
             /\ proxy_log'[Len(proxy_log')].target \in ready']_vars

\* C7: every register request was issued when the user's server row and
\* the state taken from the spawner were already committed.
C7_RegisterAfterCommit ==
    \A i \in Posts :
        /\ proxy_log[i].target # None
        /\ proxy_log[i].row = proxy_log[i].target
        /\ proxy_log[i].state # None
        /\ proxy_log[i].cstate = proxy_log[i].state

\* C7 witness: a register request has been issued.
C7_Witness == \E i \in Posts : proxy_log[i].ok

\* C8: register is only issued for a target that has passed the readiness
\* probe.
C8_RegisterAfterProbe == \A i \in Posts : proxy_log[i].ready

\* C9: whenever the Store's server of a user goes from present to null, the
\* same stop has issued the unregister for that user first, while the Store
\* still showed the server.
C9_UnregisterBeforeClear ==
    [][\A u \in Users :
          (committed.user_server[u] # None /\ committed'.user_server[u] = None)
          => /\ Issues("DELETE", u)
             /\ proxy_log'[Len(proxy_log')].row = committed.user_server[u]
             /\ proxy_log'[Len(proxy_log')].target = committed.user_server[u]]_vars

\* C9 witness: a stop has unregistered a route and cleared the server.
C9_Witness ==
    \E i \in Deletes :
        /\ proxy_log[i].ok
        /\ committed.user_server[proxy_log[i].user] = None
        /\ \E j \in Posts : j < i /\ proxy_log[j].user = proxy_log[i].user

\* The step ends h's stop of u normally, with u in Idle and committed.
StoppedIdle(h, u) ==
    /\ handlers'[h].pc = "idle" /\ handlers'[h].result = "stopped"
    /\ user_state'[u] = None /\ user_spawner'[u] = None /\ user_server'[u] = None
    /\ committed'.user_state[u] = None /\ committed'.user_server[u] = None

hub_state == <<user_server, user_state, user_spawner, servers, api_tokens,
               cookie_tokens, committed, spawners, routes, proxy_log, ready,
               jar>>

\* C11: a stop of a user without a spawner returns at once: no poll() or
\* stop() on any Spawner, no unregister, and user.state, user.server, the
\* tokens and the Store are left as they were; no handler stays suspended.
C11_StopWithoutSpawnerIsNoop ==
    [][\A h \in Handlers :
          (Free(h) /\ nreq' # nreq /\ handlers'[h].result = "stop_noop")
          => /\ hub_state' = hub_state
             /\ handlers'[h].pc = "idle"
             /\ \A g \in Handlers : g # h => handlers'[g] = handlers[g]]_vars

\* C11 witness: a stop has returned at once after an earlier stop of the
\* same user had torn its server down.
C11_Witness ==
    \E h \in Handlers : \E i \in Deletes :
        /\ handlers[h].result = "stop_noop"
        /\ user_spawner[proxy_log[i].user] = None
        /\ \A g \in Handlers : handlers[g].pc = "idle"

\* Token strings stored in either table.
TokenValues(api, cookies) == {t.token : t \in api \cup cookies}

\* C12: when get resumes from poll() with an exit status it spawns again:
\* a new Server row replaces user.server, a new Spawner replaces
\* user.spawner and is started, and that Spawner is given a newly minted
\* APIToken of the user; when its start() returns and the user still has
\* that Spawner, the user is running on that one Server and Spawner, its
\* state stored and its route requested.
C12_RespawnOnDeath ==
    [][\A h \in Handlers :
          LET u == handlers[h].user IN
          /\ (handlers[h].pc = "get_poll" /\ handlers'[h].pc = "spawn_start")
             => /\ FALSE \in PollSaysRunning(h)
                /\ Len(servers') = Len(servers) + 1
                /\ Len(spawners') = Len(spawners) + 1
                /\ user_server'[u] = Len(servers')
                /\ user_server'[u] # user_server[u]
                /\ user_spawner'[u] = Len(spawners')
                /\ user_spawner'[u] # user_spawner[u]
                /\ handlers'[h].sp = Len(spawners')
                /\ spawners'[Len(spawners')].up
                /\ spawners'[Len(spawners')].api_token
                      \notin TokenValues(api_tokens, cookie_tokens)
                /\ [token |-> spawners'[Len(spawners')].api_token, user |-> u]
                      \in api_tokens'
                /\ Cardinality(api_tokens') = Cardinality(api_tokens) + 1
          /\ (/\ handlers[h].pc = "spawn_start"
              /\ handlers'[h].result = "redirect"
              /\ user_spawner[u] = handlers[h].sp)
             => /\ user_spawner'[u] = handlers[h].sp
                /\ user_server'[u] = handlers[h].sp
                /\ user_state'[u] = handlers[h].sp
                /\ Issues("POST", u)
                /\ proxy_log'[Len(proxy_log')].target = handlers[h].sp]_vars

\* C12 witness: the process of the first Spawner has exited, no stop has
\* run, and the user runs on a second Server and Spawner with its own token.
C12_Witness ==
    \E u \in Users :
        /\ Deletes = {}
        /\ Len(spawners) = 2 /\ ~spawners[1].up /\ spawners[1].user = u
        /\ user_server[u] = 2 /\ user_spawner[u] = 2 /\ user_state[u] = 2
        /\ routes[u] = 2
        /\ spawners[2].api_token # spawners[1].api_token
        /\ \A h \in Handlers : handlers[h].pc = "idle"

\* Every credential value a request can present: none (0), each token
\* string minted so far, and one string that was never minted.
Presented == 0 .. (Cardinality(api_tokens) + Cardinality(cookie_tokens) + 1)

IsApiToken(t)    == \E r \in api_tokens : r.token = t
IsCookieToken(t) == \E r \in cookie_tokens : r.token = t

\* C13: for every header and Hub cookie a request can present: a header
\* naming a stored APIToken resolves to its owner whatever the cookie and
\* leaves the cookie alone; otherwise a cookie equal to a stored CookieToken
\* resolves to its owner; otherwise the request is anonymous, and a cookie
\* that was presented is cleared.  A CookieToken value in the header or an
\* APIToken value in the cookie resolves to no user.
C13_ResolutionOrder ==
    \A b \in Browsers : \A hdr \in Presented : \A cookie \in Presented :
        LET user  == get_current_user(World, hdr, cookie)
            after == get_current_user_effect(World, b, hdr, cookie)
        IN /\ IsApiToken(hdr)
              => /\ [token |-> hdr, user |-> user] \in api_tokens
                 /\ after = World
           /\ (~IsApiToken(hdr) /\ IsCookieToken(cookie))
              => /\ [token |-> cookie, user |-> user] \in cookie_tokens
                 /\ after = World
           /\ (~IsApiToken(hdr) /\ ~IsCookieToken(cookie))
              => /\ user = Anonymous
                 /\ after = IF cookie = None THEN World
                            ELSE [World EXCEPT !.jar[b].hub = None]
           /\ IsCookieToken(hdr)
              => get_current_user(World, hdr, None) = Anonymous
           /\ IsApiToken(cookie)
              => get_current_user(World, None, cookie) = Anonymous

\* C13 witness: an APIToken of one user and a CookieToken of another are
\* stored, so a request can present both.
C13_Witness ==
    \E a \in api_tokens : \E c \in cookie_tokens : a.user # c.user

\* The user a request of browser b resolves to when it presents the Hub
\* cookie b holds and no Authorization header.
CookieSession(b) == get_current_user(World, None, jar[b].hub)

\* C14: after set_login_cookie(U) has run on a request of a browser (at a
\* login, or at the end of GET /user/U, whatever credentials the request
\* presented), a following request of that browser that presents the Hub
\* cookie the browser then holds and no bearer header resolves to U.
C14_LoginCookieResolvesToUser ==
    [][/\ \A h \in Handlers : \A b \in Browsers : \A u \in Users :
             Login(h, b, u) => (jar'[b].hub # None => CookieSession(b)' = u)
       /\ \A h \in Handlers : \A b \in Browsers : \A u \in Users :
             (/\ handlers[h].pc \in {"get_poll", "spawn_start"}
              /\ handlers[h].browser = b /\ handlers[h].user = u
              /\ handlers'[h].result = "redirect")
             => (jar'[b].hub # None => CookieSession(b)' = u)]_vars

\* Everything GET /user/{name} must leave alone when the request is not
\* logged in as {name}: users' server, spawner and state, the Server rows,
\* both token tables, the Store, the Spawners, the routes and the calls made
\* to the Proxy.
spawn_state == <<user_server, user_state, user_spawner, servers, api_tokens,
                 cookie_tokens, committed, spawners, routes, proxy_log, ready>>

\* C15: GET /user/{name} by a request that resolves to no user or to another
\* user starts no Spawner and changes no user's server, spawner, state,
\* tokens or routes; it clears login cookies of the browser, sets none, and
\* answers with the redirect to the login page without suspending.
C15_WrongUserOnlyClearsCookies ==
    [][\A h \in Handlers :
          (Free(h) /\ nreq' # nreq /\ handlers'[h].result = "to_login")
          => /\ spawn_state' = spawn_state
             /\ handlers'[h].pc = "idle"
             /\ \E b \in Browsers :
                   /\ jar'[b].hub = None
                   /\ \A u \in Users :
                         jar'[b].user[u] \in {None, jar[b].user[u]}
                   /\ \A c \in Browsers \ {b} : jar'[c] = jar[c]]_vars

\* C15 witness: a request was sent to the login page while a user is Running
\* behind a route; the browser holds no Hub cookie although CookieTokens are
\* stored, and a per-user cookie it was given is gone too.
C15_Witness ==
    /\ \E h \in Handlers : handlers[h].result = "to_login"
    /\ \A h \in Handlers : handlers[h].pc = "idle"
    /\ \E u \in Users :
          /\ user_spawner[u] # None /\ routes[u] # None
          /\ \E t \in cookie_tokens : t.user = u
          /\ \A b \in Browsers : jar[b].hub = None /\ jar[b].user[u] = None

\* C16: GET /api/authorizations/{token} by a request authenticated with a
\* bearer API token answers with the owner of the CookieToken whose value is
\* {token}, and with 404 when no CookieToken has that value, the value of an
\* APIToken included; the lookup changes nothing stored.  A CookieToken
\* minted for U, looked up, yields U.
C16_AuthorizationIsCookieLookup ==
    [][\A h \in Handlers : \A hdr \in Headers : \A token \in Tokens :
          (GetAuthorization(h, hdr, token) /\ IsApiToken(hdr))
          => /\ hub_state' = hub_state
             /\ handlers'[h].pc = "idle"
             /\ IsCookieToken(token)
                => /\ handlers'[h].result = "authorized"
                   /\ \A r \in cookie_tokens :
                         r.token = token => handlers'[h].user = r.user
             /\ ~IsCookieToken(token)
                => /\ handlers'[h].result = "not_found"
                   /\ handlers'[h].user = Anonymous]_vars

\* C16 witness: a lookup was answered with a user while CookieTokens and
\* APITokens are both stored.
C16_Witness ==
    \E h \in Handlers : \E u, v \in Users :
        /\ handlers[h].result = "authorized" /\ handlers[h].user = u
        /\ \E c \in cookie_tokens : c.user = v
        /\ \E a \in api_tokens : a.user = v

\* The tokens of either kind that user u owns.
tokens_of(table, u) == {t \in table : t.user = u}

UserRunning(u) ==
    /\ user_server[u] # None /\ user_spawner[u] # None
    /\ user_state[u] # None /\ routes[u] # None
UserIdle(u) ==
    user_server[u] = None /\ user_spawner[u] = None /\ user_state[u] = None

\* C18: once spawn(U) has started, and given that every awaited call
\* completes or fails, U is eventually Running (server, spawner, state and
\* route present) or back in Idle.
C18_SpawnEndsRunningOrIdle ==
    \A u \in Users :
        (\E h \in Handlers : InStart(h, u)) ~> (UserRunning(u) \/ UserIdle(u))

\* C19: GET /user/{name} by {name}, spawner present, poll() reports the
\* process running: no spawn.  No Spawner is created or started, no Server
\* row and no APIToken is added, user.server, user.spawner and user.state of
\* every user stay as they are and nothing is sent to the Proxy; only
\* CookieTokens of {name} are added.
C19_RunningGetDoesNotSpawn ==
    [][\A h \in Handlers : \A u \in Users :
          (/\ handlers[h].pc = "get_poll" /\ handlers[h].user = u
           /\ handlers'[h].result = "redirect")
          => /\ TRUE \in PollSaysRunning(h)
             /\ spawners' = spawners
             /\ servers' = servers /\ api_tokens' = api_tokens
             /\ user_server' = user_server /\ user_spawner' = user_spawner
             /\ user_state' = user_state
             /\ routes' = routes /\ proxy_log' = proxy_log /\ ready' = ready
             /\ committed'.servers = committed.servers
             /\ committed'.api_tokens = committed.api_tokens
             /\ committed'.user_server = committed.user_server
             /\ committed'.user_state = committed.user_state
             /\ cookie_tokens \subseteq cookie_tokens'
             /\ \A t \in cookie_tokens' \ cookie_tokens : t.user = u]_vars

\* C19 witness: three requests served one after the other by the first
\* handler (login, GET that spawned, GET that found the server running): one
\* Spawner, one register, and a third CookieToken from the last GET.
C19_Witness ==
    \E u \in Users :
        /\ nreq = 3
        /\ handlers[1].pc = "idle" /\ handlers[1].result = "redirect"
        /\ handlers[2].result = "none"
        /\ Len(spawners) = 1 /\ Cardinality(Posts) = 1 /\ Deletes = {}
        /\ UserRunning(u)
        /\ Cardinality(tokens_of(cookie_tokens, u)) = 3

\* Every stored token resolves to its owner: an APIToken presented as bearer,
\* a CookieToken presented as the Hub cookie; and the APIToken every Spawner
\* was given, stopped ones included, is still among them.
StoredTokensResolve ==
    LET w == [api_tokens |-> api_tokens, cookie_tokens |-> cookie_tokens]
    IN /\ \A t \in api_tokens : get_current_user(w, t.token, None) = t.user
       /\ \A t \in cookie_tokens : get_current_user(w, None, t.token) = t.user
       /\ \A k \in 1 .. Len(spawners) :
             get_current_user(w, spawners[k].api_token, None)
                = spawners[k].user

\* C20: no operation removes a token: over login, clear_login_cookie, spawn,
\* re-spawn and stop both token tables only grow, in the session and in the
\* Store, so after a stop the APIToken of the stopped spawn still resolves to
\* its user and after clear_login_cookie every CookieToken still resolves to
\* its owner.
C20_TokensOnlyGrow ==
    /\ [][/\ api_tokens \subseteq api_tokens'
          /\ cookie_tokens \subseteq cookie_tokens'
          /\ committed.api_tokens \subseteq committed'.api_tokens
          /\ committed.cookie_tokens \subseteq committed'.cookie_tokens]_vars
    /\ []StoredTokensResolve

\* C20 witness: a user was stopped and the browser's cookies were cleared;
\* the stopped Spawner's APIToken and the CookieTokens are still stored.
C20_Witness ==
    \E u \in Users : \E k \in 1 .. Len(spawners) :
        /\ spawners[k].user = u /\ spawners[k].stop_called
        /\ UserIdle(u)
        /\ \E h \in Handlers : handlers[h].result = "to_login"
        /\ \A h \in Handlers : handlers[h].pc = "idle"
        /\ \A b \in Browsers : jar[b].hub = None
        /\ [token |-> spawners[k].api_token, user |-> u] \in api_tokens
        /\ tokens_of(cookie_tokens, u) # {}
====
